---- MODULE Spec2Model ----
(***************************************************************************)
(* Model of pubmed_preprint_search.py: the retry loop of the citation      *)
(* source (search_pubmed, fetch_pubmed_details), the per-record            *)
(* normalisation of search_articles, the timeframe filter, the colour      *)
(* tables, and the cross-query merge of combine_and_display_results.       *)
(*                                                                         *)
(* Time is counted in ticks; a calendar day is TicksPerDay ticks and day 0 *)
(* starts at tick 0.  A datetime is a tick number, a date is a day number. *)
(* Text is a sequence of tokens (a token is a string): the markup tokens   *)
(* "<h3>" and "</h3>", the blank " ", and letters.                         *)
(***************************************************************************)
EXTENDS Integers, Sequences, FiniteSets, TLC

VARIABLES
    entry,              \* the function the caller invoked
    pc,                 \* where the call is: a stage name, "returned" or "raised"
    clock,              \* the wall clock, in ticks (datetime.now())
    remote,             \* the records the remote sources may hand out
    fetched,            \* number of raw records handed out so far
    max_retries,        \* search_pubmed / fetch_pubmed_details: parameter
    initial_delay,      \* search_pubmed / fetch_pubmed_details: parameter
    attempt,            \* the retry loop's index (range(max_retries))
    delay,              \* the retry loop's current delay
    sleeps,             \* the delays time.sleep was called with, in order
    requests,           \* the requests of the current call: [fn, attempt, outcome, response]
    result,             \* the value the invoked function returned
    queries,            \* combine_and_display_results: parameter
    qi,                 \* combine_and_display_results: index of the current query
    timeframe,          \* parameter
    max_future_months,  \* parameter
    pubmed_results,     \* search_articles: local
    pubmed_papers,      \* search_articles: local
    preprint_results,   \* search_articles: local
    researchsquare_results, \* search_articles: local
    current_date,       \* search_articles: local
    all_articles,       \* search_articles: local
    articles,           \* filter_articles_by_timeframe: parameter
    calls,              \* the adapter calls made: [fn, query, status]
    produced,           \* every article search_articles returned, in order
    seen_titles,        \* combine_and_display_results: the title -> article map
    all_results,        \* combine_and_display_results: the sorted list
    displayed,          \* whether display(HTML(...)) was called
    color_arg,          \* colour functions: the date passed
    color               \* colour functions: the colour returned

vars == <<entry, pc, clock, remote, fetched, max_retries, initial_delay, attempt,
          delay, sleeps, requests, result, queries, qi, timeframe,
          max_future_months, pubmed_results, pubmed_papers, preprint_results,
          researchsquare_results, current_date, all_articles, articles, calls,
          produced,
          seen_titles, all_results, displayed, color_arg, color>>

----------------------------------------------------------------------------
(* Bounds of the model. *)

TicksPerDay == 2        \* resolution of the clock within a day
MaxRetriesBound == 4    \* largest max_retries a direct call is given
MaxInitialDelay == 2    \* largest initial_delay a direct call is given
MaxRecords == 3         \* raw records the sources hand out in one call
MaxQueries == 2         \* longest query list

(* Program constants. *)

DefaultMaxRetries == 3
DefaultInitialDelay == 1
DefaultMaxFutureMonths == 6
GenericFreshDays == 3
GenericRecentDays == 7
RecentDays == 7
ModerateDays == 30

GREEN == "#92C353"
YELLOW == "#F2C94C"
RED == "#E57373"

None == "None"

----------------------------------------------------------------------------
(* Dates. *)

\* timedelta(days=n)
Days(n) == n * TicksPerDay

\* datetime.date(): the calendar day of a datetime
DateOf(t) == t \div TicksPerDay

\* timedelta.days of (a - b): whole days, rounded towards minus infinity
DaysBetween(a, b) == (a - b) \div TicksPerDay

\* datetime(year, month, day) and strptime(s, '%Y-%m-%d'): midnight of the day
Midnight(day) == Days(day)

\* strptime(s, '%Y-%m-%d %H:%M:%S'): the day and the time within it
DateTime(day, tod) == Days(day) + tod

----------------------------------------------------------------------------
(* Colour tables. *)

\* lines 130-139; date is [present, t]: present is FALSE for None
get_color_by_date(now, date) ==
    IF ~date.present THEN RED
    ELSE LET days_ago == DaysBetween(now, date.t) IN
         IF days_ago <= GenericFreshDays THEN GREEN
         ELSE IF days_ago <= GenericRecentDays THEN YELLOW
         ELSE RED

\* lines 176-183
get_researchsquare_color(now, date) ==
    LET days_ago == DaysBetween(now, date) IN
    IF days_ago <= RecentDays THEN "#8FBC8F"
    ELSE IF days_ago <= ModerateDays THEN "#DEB887"
    ELSE "#CD5C5C"

\* fault of a threshold: < for <=
get_pubmed_color_exclusive(now, date) ==
    LET days_ago == DaysBetween(now, date) IN
    IF days_ago < RecentDays THEN "#2E8B57"
    ELSE IF days_ago <= ModerateDays THEN "#DAA520"
    ELSE "#B22222"

\* lines 198-205, now being current_date
get_pubmed_color(now, date) ==
    LET days_ago == DaysBetween(now, date) IN
    IF days_ago <= RecentDays THEN "#2E8B57"
    ELSE IF days_ago <= ModerateDays THEN "#DAA520"
    ELSE "#B22222"

\* lines 207-214, now being current_date
get_preprint_color(now, date) ==
    LET days_ago == DaysBetween(now, date) IN
    IF days_ago <= RecentDays THEN "#98FB98"
    ELSE IF days_ago <= ModerateDays THEN "#FAFAD2"
    ELSE "#FFA07A"

----------------------------------------------------------------------------
(* Validity window and timeframe filter. *)

\* fault of the window: the oldest admissible instant left out
is_valid_date_exclusive(now, months, date) ==
    /\ now - Days(365 * 5) < date
    /\ date <= now + Days(30 * months)

\* lines 193-196, now being current_date
is_valid_date(now, months, date) ==
    /\ now - Days(365 * 5) <= date
    /\ date <= now + Days(30 * months)

\* fault of the comparison of line 155: the start date itself left out
SelectAfter(list, start_date) ==
    SelectSeq(list, LAMBDA article : DateOf(article.date) > start_date)

\* line 155
SelectArticles(list, start_date) ==
    SelectSeq(list, LAMBDA article : DateOf(article.date) >= start_date)

\* lines 144-155, now being the datetime.now() of line 145
filter_articles_by_timeframe(now, list, tf) ==
    LET today == DateOf(now) IN
    IF tf = "today" THEN SelectArticles(list, today)
    ELSE IF tf = "week" THEN SelectArticles(list, today - 7)
    ELSE IF tf = "month" THEN SelectArticles(list, today - 30)
    ELSE list

----------------------------------------------------------------------------
(* Text: sequences of tokens. *)

Blank == " "

RECURSIVE lstrip(_)
lstrip(s) == IF s # <<>> /\ Head(s) = Blank THEN lstrip(Tail(s)) ELSE s

RECURSIVE rstrip(_)
rstrip(s) ==
    IF s # <<>> /\ s[Len(s)] = Blank THEN rstrip(SubSeq(s, 1, Len(s) - 1)) ELSE s

\* str.strip()
strip(s) == rstrip(lstrip(s))

\* str.find(token): the position of the first occurrence, counted from 0; -1 if none
find(s, token) ==
    IF \E i \in 1..Len(s) : s[i] = token
    THEN (CHOOSE i \in 1..Len(s) : s[i] = token /\ \A j \in 1..(i - 1) : s[j] # token) - 1
    ELSE -1

\* s[a:b] for 0 <= a and 0 <= b (positions counted from 0, b exclusive)
slice(s, a, b) == SubSeq(s, a + 1, b)

\* lines 357-359: the title is read back from the rendered fragment
extract_title(html) ==
    LET title_start == find(html, "<h3>") + 1
        title_end == find(html, "</h3>")
    IN  strip(slice(html, title_start, title_end))

----------------------------------------------------------------------------
(* Raw records and articles.                                               *)
(*   citation paper:   [history |-> [present, dates], title |-> [present,  *)
(*                      text]], a history date being [isDict, status, ok,  *)
(*                      day] (ok: Year/Month/Day make a date)              *)
(*   aggregator record: [date |-> [ok, day], title]   (ok: the key is      *)
(*                      there and strptime accepts it)                     *)
(*   server record:     [posted_at |-> [ok, day, tod], title]              *)

NoArticle == [date |-> 0, color |-> "", html |-> <<>>, query |-> "", queries |-> <<>>]

Article(date, col, title, label, query) ==
    [date |-> date, color |-> col,
     html |-> <<"<div", col, ">", "<h3>">> \o title \o <<"</h3>", label>>,
     query |-> query, queries |-> <<>>]

Normalized(a) == [kind |-> "article", article |-> a]
Skipped == [kind |-> "skip", article |-> NoArticle]
Raised == [kind |-> "raise", article |-> NoArticle]

\* dict.get('title', 'No Title Available')
TitleOf(rec) == IF rec.title.present THEN rec.title.text ELSE <<"No Title Available">>

Max(S) == CHOOSE x \in S : \A y \in S : y <= x

\* lines 218-268: one iteration of the loop over pubmed_papers['PubmedArticle']
normalize_pubmed(paper, query, now, months) ==
    IF ~paper.history.present THEN Skipped
    ELSE LET dates == paper.history.dates
             tagged == {i \in 1..Len(dates) :
                           dates[i].isDict /\ dates[i].status = "pubmed"}
             dicts == {i \in 1..Len(dates) : dates[i].isDict}
         IN  IF tagged # {} /\ ~dates[CHOOSE i \in tagged : \A j \in tagged : i <= j].ok
             THEN Raised
             ELSE IF tagged = {} /\ (dicts = {} \/ \E i \in dicts : ~dates[i].ok)
             THEN Raised
             ELSE LET online_date ==
                          IF tagged # {}
                          THEN Midnight(dates[CHOOSE i \in tagged :
                                                  \A j \in tagged : i <= j].day)
                          ELSE Max({Midnight(dates[i].day) : i \in dicts})
                  IN  IF ~is_valid_date(now, months, online_date) THEN Skipped
                      ELSE Normalized(Article(online_date,
                                              get_pubmed_color(now, online_date),
                                              TitleOf(paper), "Journal", query))

\* lines 274-303: one iteration of the loop over preprint_results['collection']
normalize_preprint(paper, query, now, months) ==
    IF ~paper.date.ok THEN Raised
    ELSE LET date_posted == Midnight(paper.date.day) IN
         IF ~is_valid_date(now, months, date_posted) THEN Skipped
         ELSE Normalized(Article(date_posted, get_preprint_color(now, date_posted),
                                 TitleOf(paper), "Server", query))

\* lines 309-338: one iteration of the loop over researchsquare_results['result']['data'];
\* colorNow is the clock get_researchsquare_color reads
normalize_researchsquare(paper, query, now, months, colorNow) ==
    IF ~paper.posted_at.ok THEN Raised
    ELSE LET date_posted == DateTime(paper.posted_at.day, paper.posted_at.tod) IN
         IF ~is_valid_date(now, months, date_posted) THEN Skipped
         ELSE Normalized(Article(date_posted,
                                 get_researchsquare_color(colorNow, date_posted),
                                 TitleOf(paper), "ResearchSquare", query))

\* fault of the loops: an exception of one record leaves the loop
RECURSIVE collect_abort(_, _)
collect_abort(outcomes, acc) ==
    IF outcomes = <<>> THEN [articles |-> acc, raised |-> FALSE]
    ELSE LET o == Head(outcomes) IN
         IF o.kind = "article" THEN collect_abort(Tail(outcomes), Append(acc, o.article))
         ELSE IF o.kind = "raise" THEN [articles |-> acc, raised |-> TRUE]
         ELSE collect_abort(Tail(outcomes), acc)

\* The loop around the iterations: an article is appended, `continue` (a skip) and
\* `except Exception: continue` go on with the next record.  The result is the
\* articles and whether an exception left the loop.
RECURSIVE collect(_, _)
collect(outcomes, acc) ==
    IF outcomes = <<>> THEN [articles |-> acc, raised |-> FALSE]
    ELSE LET o == Head(outcomes) IN
         IF o.kind = "article" THEN collect(Tail(outcomes), Append(acc, o.article))
         ELSE collect(Tail(outcomes), acc)

process_pubmed(papers, query, now, months) ==
    collect([i \in 1..Len(papers) |-> normalize_pubmed(papers[i], query, now, months)],
            <<>>)

process_preprints(papers, query, now, months) ==
    collect([i \in 1..Len(papers) |-> normalize_preprint(papers[i], query, now, months)],
            <<>>)

process_researchsquare(papers, query, now, months, colorNow) ==
    collect([i \in 1..Len(papers) |->
                normalize_researchsquare(papers[i], query, now, months, colorNow)],
            <<>>)

----------------------------------------------------------------------------
(* Cross-query merge. *)

\* position of title in the map (0: not a key)
KeyIndex(seen, title) ==
    IF \E i \in 1..Len(seen) : seen[i].title = title
    THEN CHOOSE i \in 1..Len(seen) : seen[i].title = title
    ELSE 0

\* fault of the merge: a repeated title replaces the stored article
merge_one_overwrite(seen, res, query) ==
    LET title == extract_title(res.html)
        k == KeyIndex(seen, title)
    IN  IF k > 0
        THEN [seen EXCEPT ![k].article = [res EXCEPT !.queries = <<query>>]]
        ELSE Append(seen, [title |-> title,
                           article |-> [res EXCEPT !.queries = <<query>>]])

\* lines 356-367: one iteration of the loop over results
merge_one(seen, res, query) ==
    LET title == extract_title(res.html)
        k == KeyIndex(seen, title)
    IN  IF k > 0
        THEN [seen EXCEPT ![k].article.queries = Append(@, query)]
        ELSE Append(seen, [title |-> title,
                           article |-> [res EXCEPT !.queries = <<query>>]])

\* lines 355-367
RECURSIVE merge_results(_, _, _)
merge_results(seen, results, query) ==
    IF results = <<>> THEN seen
    ELSE merge_results(merge_one(seen, Head(results), query), Tail(results), query)

\* list(seen_titles.values())
values(seen) == [i \in 1..Len(seen) |-> seen[i].article]

\* fault of the sort: an article goes in front of those of its date
RECURSIVE insert_desc_unstable(_, _)
insert_desc_unstable(sorted, x) ==
    IF sorted = <<>> THEN <<x>>
    ELSE IF Head(sorted).date > x.date
         THEN <<Head(sorted)>> \o insert_desc_unstable(Tail(sorted), x)
         ELSE <<x>> \o sorted

\* insertion of x into a list sorted by date, newest first, behind its equals
RECURSIVE insert_desc(_, _)
insert_desc(sorted, x) ==
    IF sorted = <<>> THEN <<x>>
    ELSE IF Head(sorted).date >= x.date
         THEN <<Head(sorted)>> \o insert_desc(Tail(sorted), x)
         ELSE <<x>> \o sorted

\* list.sort(key=date, reverse=True): stable, equal dates keep their order
RECURSIVE sort_by_date_desc(_, _)
sort_by_date_desc(list, acc) ==
    IF list = <<>> THEN acc
    ELSE sort_by_date_desc(Tail(list), insert_desc(acc, Head(list)))


----------------------------------------------------------------------------
(* The retry loop of search_pubmed and fetch_pubmed_details. *)

\* What a request can end in: a parsed response, an HTTPError with a code, or
\* any other exception.
Ok == [kind |-> "ok", code |-> 200]
HttpError(code) == [kind |-> "http", code |-> code]
OtherError == [kind |-> "error", code |-> 0]
Outcomes == {Ok, HttpError(500), HttpError(404), HttpError(503), OtherError}

\* lines 34, 57: delay = initial_delay
first_delay(initial) == initial

\* lines 36, 59: for attempt in range(max_retries)
in_range(i, n) == i < n

\* faults of the retry condition: giving up one attempt early; retrying whatever
\* the HTTP code
should_retry_early(code, i, n) == code = 500 /\ i < n - 2
should_retry_any_code(code, i, n) == i < n - 1

\* lines 43, 66: e.code == 500 and attempt < max_retries - 1
should_retry(code, i, n) == code = 500 /\ i < n - 1

\* fault of the backoff: a linear step
next_delay_linear(d) == d + 1

\* lines 46, 69: delay *= 2
next_delay(d) == d * 2

\* all sequences over S of length at most n
Payloads(S, n) == UNION {[1..k -> S] : k \in 0..n}

retryVars == <<max_retries, initial_delay, attempt, delay, sleeps, requests>>
paramVars == <<entry, remote, queries, timeframe, max_future_months, color_arg>>
payloadVars == <<pubmed_results, pubmed_papers, preprint_results,
                 researchsquare_results>>
combineVars == <<qi, produced, seen_titles, all_results, displayed>>

\* a call of search_pubmed / fetch_pubmed_details from search_articles (lines
\* 186-187) starts with the default parameters
NewDefaultFrame ==
    /\ max_retries' = DefaultMaxRetries
    /\ initial_delay' = DefaultInitialDelay
    /\ attempt' = 0
    /\ delay' = first_delay(DefaultInitialDelay)
    /\ sleeps' = <<>>
    /\ requests' = <<>>

Call(fn, status) == [fn |-> fn, query |-> qi, status |-> status]

\* fault of the propagation: the failure is swallowed and the call goes on with
\* no results for the query
Swallow(fn) ==
    /\ pc' = IF entry = "combine_and_display_results" THEN "merge" ELSE "returned"
    /\ calls' = Append(calls, Call(fn, "failed"))

\* an exception leaves the invoked function: nothing above catches it
Propagate(fn) ==
    /\ pc' = "raised"
    /\ calls' = Append(calls, Call(fn, "failed"))

\* search_articles going on with the value r returned by fn (lines 186-188)
Deliver(fn, r) ==
    IF fn = "search_pubmed"
    THEN /\ pubmed_results' = r
         /\ fetched' = fetched + Len(r)
         /\ pc' = "fetch_pubmed_details"
         /\ UNCHANGED <<pubmed_papers, preprint_results, researchsquare_results>>
    ELSE /\ pubmed_papers' = r
         /\ pc' = "search_preprints"
         /\ UNCHANGED <<pubmed_results, preprint_results, researchsquare_results,
                        fetched>>

\* One pass through the loop body of fn (lines 36-51, 59-74), or the raise
\* behind the loop (lines 53, 76).  responses: what a successful request can
\* return.
RetryStep(fn, responses) ==
    /\ pc = fn
    /\ IF in_range(attempt, max_retries)
       THEN \E outcome \in Outcomes :
            \E response \in IF outcome = Ok THEN responses ELSE {<<>>} :
              LET log == Append(requests, [fn |-> fn, attempt |-> attempt,
                                           outcome |-> outcome,
                                           response |-> response])
              IN  CASE outcome = Ok ->
                         /\ calls' = Append(calls, Call(fn, "ok"))
                         /\ IF entry = fn
                            THEN /\ result' = response
                                 /\ pc' = "returned"
                                 /\ requests' = log
                                 /\ UNCHANGED <<max_retries, initial_delay, attempt,
                                                delay, sleeps, payloadVars, fetched>>
                            ELSE /\ Deliver(fn, response)
                                 /\ NewDefaultFrame
                                 /\ UNCHANGED result
                    [] outcome.kind = "http"
                       /\ should_retry(outcome.code, attempt, max_retries) ->
                         /\ sleeps' = Append(sleeps, delay)
                         /\ delay' = next_delay(delay)
                         /\ attempt' = attempt + 1
                         /\ requests' = log
                         /\ UNCHANGED <<pc, calls, result, max_retries, initial_delay,
                                        payloadVars, fetched>>
                    [] OTHER ->
                         /\ Propagate(fn)
                         /\ requests' = log
                         /\ UNCHANGED <<result, max_retries, initial_delay, attempt,
                                        delay, sleeps, payloadVars, fetched>>
       ELSE /\ Propagate(fn)
            /\ UNCHANGED <<result, retryVars, payloadVars, fetched>>
    /\ UNCHANGED <<paramVars, combineVars, clock, current_date, all_articles,
                   articles, color>>

\* search_pubmed, lines 21-53
search_pubmed ==
    RetryStep("search_pubmed", Payloads(remote.pubmed, MaxRecords - fetched))

\* fetch_pubmed_details, lines 55-76: the records of the identifiers passed
fetch_pubmed_details ==
    RetryStep("fetch_pubmed_details", {pubmed_results})

----------------------------------------------------------------------------
(* The other two adapters: one request, no retry, nothing caught. *)

MaxClock == TicksPerDay

\* the values a later reading of datetime.now() can give
Later(t) == t..MaxClock

\* search_preprints, lines 78-90, called at line 188
search_preprints ==
    /\ pc = "search_preprints"
    /\ \E outcome \in {Ok, OtherError} :
       \E response \in IF outcome = Ok
                       THEN Payloads(remote.preprint, MaxRecords - fetched)
                       ELSE {<<>>} :
          IF outcome = Ok
          THEN /\ preprint_results' = response
               /\ fetched' = fetched + Len(response)
               /\ calls' = Append(calls, Call("search_preprints", "ok"))
               /\ pc' = "search_researchsquare"
          ELSE /\ Propagate("search_preprints")
               /\ UNCHANGED <<preprint_results, fetched>>
    /\ UNCHANGED <<paramVars, combineVars, retryVars, clock, current_date,
                   all_articles, articles, color, result, pubmed_results, pubmed_papers,
                   researchsquare_results>>

\* search_researchsquare, lines 157-174, called at line 189
search_researchsquare ==
    /\ pc = "search_researchsquare"
    /\ \E outcome \in {Ok, OtherError} :
       \E response \in IF outcome = Ok
                       THEN Payloads(remote.researchsquare, MaxRecords - fetched)
                       ELSE {<<>>} :
          IF outcome = Ok
          THEN /\ researchsquare_results' = response
               /\ fetched' = fetched + Len(response)
               /\ calls' = Append(calls, Call("search_researchsquare", "ok"))
               /\ pc' = "normalize"
          ELSE /\ Propagate("search_researchsquare")
               /\ UNCHANGED <<researchsquare_results, fetched>>
    /\ UNCHANGED <<paramVars, combineVars, retryVars, clock, current_date,
                   all_articles, articles, color, result, pubmed_results, pubmed_papers,
                   preprint_results>>

----------------------------------------------------------------------------
(* search_articles behind the adapters. *)

Query == IF entry = "combine_and_display_results" THEN queries[qi] ELSE queries[1]

\* lines 191-341: the three loops over the raw records
normalize_records ==
    /\ pc = "normalize"
    /\ \E now \in Later(clock) : \E colorNow \in Later(now) :
          LET a == process_pubmed(pubmed_papers, Query, now, max_future_months)
              b == process_preprints(preprint_results, Query, now, max_future_months)
              c == process_researchsquare(researchsquare_results, Query, now,
                                          max_future_months, colorNow)
          IN  /\ current_date' = now
              /\ clock' = IF researchsquare_results = <<>> THEN now ELSE colorNow
              /\ researchsquare_results = <<>> => colorNow = now
              /\ IF a.raised \/ b.raised \/ c.raised
                 THEN /\ pc' = "raised"
                      /\ all_articles' = <<>>
                 ELSE /\ pc' = "filter"
                      /\ all_articles' = a.articles \o b.articles \o c.articles
    /\ UNCHANGED <<paramVars, combineVars, retryVars, payloadVars, fetched, calls,
                   color, result, articles>>

\* lines 343-347: the timeframe filter and the return
filter_and_return ==
    /\ pc = "filter"
    /\ \E now \in Later(clock) :
          /\ timeframe = None => now = clock
          /\ clock' = now
          /\ articles' = IF timeframe # None THEN all_articles ELSE articles
          /\ result' = IF timeframe # None
                       THEN filter_articles_by_timeframe(now, all_articles, timeframe)
                       ELSE all_articles
    /\ all_articles' = result'
    /\ pc' = IF entry = "search_articles" THEN "returned" ELSE "merge"
    /\ UNCHANGED <<paramVars, combineVars, retryVars, payloadVars, fetched, calls,
                   color, current_date>>

----------------------------------------------------------------------------
(* combine_and_display_results. *)

\* lines 355-367 for the results of query qi, then the next pass of the loop of
\* line 353 (the call of search_articles, line 354) or its end
merge_query ==
    /\ pc = "merge"
    /\ seen_titles' = merge_results(seen_titles, result, queries[qi])
    /\ produced' = produced \o result
    /\ IF qi < Len(queries)
       THEN /\ qi' = qi + 1
            /\ pc' = "search_pubmed"
       ELSE /\ pc' = "display"
            /\ UNCHANGED qi
    /\ NewDefaultFrame
    /\ pubmed_results' = <<>>
    /\ pubmed_papers' = <<>>
    /\ preprint_results' = <<>>
    /\ researchsquare_results' = <<>>
    /\ all_articles' = <<>>
    /\ articles' = <<>>
    /\ result' = <<>>
    /\ UNCHANGED <<paramVars, clock, current_date, fetched, calls, color, all_results,
                   displayed>>

\* lines 369-391: the values, sorted, and the report
sort_and_display ==
    /\ pc = "display"
    /\ all_results' = sort_by_date_desc(values(seen_titles), <<>>)
    /\ displayed' = TRUE
    /\ pc' = "returned"
    /\ UNCHANGED <<paramVars, retryVars, payloadVars, clock, current_date, fetched,
                   calls, color, result, all_articles, articles, qi, produced, seen_titles>>

----------------------------------------------------------------------------
(* The colour functions, called on their own. *)

ColorCall(fn, value) ==
    /\ entry = fn
    /\ pc = fn
    /\ color' = value
    /\ pc' = "returned"
    /\ UNCHANGED <<paramVars, combineVars, retryVars, payloadVars, clock,
                   current_date, fetched, calls, result, all_articles, articles>>

call_get_color_by_date ==
    ColorCall("get_color_by_date", get_color_by_date(clock, color_arg))

call_get_researchsquare_color ==
    /\ color_arg.present
    /\ ColorCall("get_researchsquare_color", get_researchsquare_color(clock, color_arg.t))

call_get_pubmed_color ==
    /\ color_arg.present
    /\ ColorCall("get_pubmed_color", get_pubmed_color(current_date, color_arg.t))

call_get_preprint_color ==
    /\ color_arg.present
    /\ ColorCall("get_preprint_color", get_preprint_color(current_date, color_arg.t))


----------------------------------------------------------------------------
(* Raw records the sources hand out. *)

Title(text) == [present |-> TRUE, text |-> text]
NoTitle == [present |-> FALSE, text |-> <<>>]

HistDate(status, day) == [isDict |-> TRUE, status |-> status, ok |-> TRUE, day |-> day]
BadHistDate(status) == [isDict |-> TRUE, status |-> status, ok |-> FALSE, day |-> 0]
Paper(dates, title) == [history |-> [present |-> TRUE, dates |-> dates], title |-> title]
PaperNoHistory(title) == [history |-> [present |-> FALSE, dates |-> <<>>], title |-> title]

Preprint(day, title) == [date |-> [ok |-> TRUE, day |-> day], title |-> title]
BadPreprint(title) == [date |-> [ok |-> FALSE, day |-> 0], title |-> title]

Posted(day, tod, title) ==
    [posted_at |-> [ok |-> TRUE, day |-> day, tod |-> tod], title |-> title]
BadPosted(title) == [posted_at |-> [ok |-> FALSE, day |-> 0, tod |-> 0], title |-> title]

FiveYearsDays == 365 * 5
FutureDays == 30 * DefaultMaxFutureMonths

\* records around the edges of the validity window and of today, and malformed ones
DatedRemote ==
    [pubmed |->
        {Paper(<<HistDate("pubmed", 0)>>, Title(<<"x">>)),
         Paper(<<HistDate("received", -1), HistDate("accepted", 1)>>, Title(<<"x">>)),
         Paper(<<HistDate("pubmed", -FiveYearsDays)>>, Title(<<"x">>)),
         Paper(<<BadHistDate("pubmed"), HistDate("received", 0)>>, Title(<<"x">>)),
         PaperNoHistory(Title(<<"x">>))},
     preprint |->
        {Preprint(-1, Title(<<"x">>)),
         Preprint(1, Title(<<"x">>)),
         Preprint(FutureDays + 1, Title(<<"x">>)),
         BadPreprint(Title(<<"x">>))},
     researchsquare |->
        {Posted(0, TicksPerDay - 1, Title(<<"x">>)),
         Posted(FutureDays, 1, NoTitle),
         BadPosted(Title(<<"x">>))}]

\* records whose titles collide once read back from the fragment, of two days
TitledRemote ==
    [pubmed |->
        {Paper(<<HistDate("pubmed", 0)>>, Title(<<"x">>))},
     preprint |->
        {Preprint(-1, Title(<<" ", "x">>)),
         Preprint(0, Title(<<"y">>))},
     researchsquare |->
        {Posted(-1, 1, Title(<<"z", "</h3>", "w">>))}]

\* identifiers a direct call of the citation source resolves
CitationRemote ==
    [pubmed |->
        {Paper(<<HistDate("pubmed", 0)>>, Title(<<"x">>)),
         Paper(<<HistDate("pubmed", -1)>>, Title(<<"y">>))},
     preprint |-> {},
     researchsquare |-> {}]

QuerySet == {"covid", "long covid"}
Timeframes == {None, "today", "week", "month", "year"}
FutureMonths == {0, DefaultMaxFutureMonths}
NoDate == [present |-> FALSE, t |-> 0]
ColorAges == {-1, 0, 3, 4, 7, 8, 30, 31}
ColorFunctions == {"get_color_by_date", "get_researchsquare_color",
                   "get_pubmed_color", "get_preprint_color"}

----------------------------------------------------------------------------
(* Initial states: the moment the caller invokes `entry`. *)

NothingFetched ==
    /\ fetched = 0
    /\ pubmed_papers = <<>>
    /\ preprint_results = <<>>
    /\ researchsquare_results = <<>>
    /\ current_date = 0
    /\ all_articles = <<>>
    /\ articles = <<>>
    /\ calls = <<>>
    /\ result = <<>>

NothingMerged ==
    /\ qi = 1
    /\ produced = <<>>
    /\ seen_titles = <<>>
    /\ all_results = <<>>
    /\ displayed = FALSE

NoColor ==
    /\ color_arg = NoDate
    /\ color = ""

FrameOf(n, d) ==
    /\ max_retries = n
    /\ initial_delay = d
    /\ attempt = 0
    /\ delay = first_delay(d)
    /\ sleeps = <<>>
    /\ requests = <<>>

\* search_pubmed(query, page, n, max_retries, initial_delay) or
\* fetch_pubmed_details(id_list, max_retries, initial_delay)
InitRetry ==
    /\ entry \in {"search_pubmed", "fetch_pubmed_details"}
    /\ pc = entry
    /\ clock = 0
    /\ remote = CitationRemote
    /\ \E n \in 0..MaxRetriesBound, d \in 1..MaxInitialDelay : FrameOf(n, d)
    /\ pubmed_results \in IF entry = "fetch_pubmed_details"
                          THEN Payloads(remote.pubmed, 1) ELSE {<<>>}
    /\ queries = <<"covid">>
    /\ timeframe = None
    /\ max_future_months = DefaultMaxFutureMonths
    /\ NothingFetched /\ NothingMerged /\ NoColor

\* search_articles(query, page, n, timeframe, max_future_months)
InitSearch ==
    /\ entry = "search_articles"
    /\ pc = "search_pubmed"
    /\ clock \in 0..(TicksPerDay - 1)
    /\ remote = DatedRemote
    /\ FrameOf(DefaultMaxRetries, DefaultInitialDelay)
    /\ pubmed_results = <<>>
    /\ queries = <<"covid">>
    /\ timeframe \in Timeframes
    /\ max_future_months \in FutureMonths
    /\ NothingFetched /\ NothingMerged /\ NoColor

\* combine_and_display_results(queries)
Init ==
    /\ entry = "combine_and_display_results"
    /\ queries \in Payloads(QuerySet, MaxQueries)
    /\ pc = IF queries = <<>> THEN "display" ELSE "search_pubmed"
    /\ clock \in 0..(TicksPerDay - 1)
    /\ remote = TitledRemote
    /\ FrameOf(DefaultMaxRetries, DefaultInitialDelay)
    /\ pubmed_results = <<>>
    /\ timeframe = None
    /\ max_future_months = DefaultMaxFutureMonths
    /\ NothingFetched /\ NothingMerged /\ NoColor

\* one of the colour functions, with a date
InitColor ==
    /\ entry \in ColorFunctions
    /\ pc = entry
    /\ clock \in 0..(TicksPerDay - 1)
    /\ remote = CitationRemote
    /\ FrameOf(DefaultMaxRetries, DefaultInitialDelay)
    /\ pubmed_results = <<>>
    /\ queries = <<"covid">>
    /\ timeframe = None
    /\ max_future_months = DefaultMaxFutureMonths
    /\ fetched = 0
    /\ pubmed_papers = <<>>
    /\ preprint_results = <<>>
    /\ researchsquare_results = <<>>
    /\ current_date = clock
    /\ all_articles = <<>>
    /\ articles = <<>>
    /\ calls = <<>>
    /\ result = <<>>
    /\ NothingMerged
    /\ color = ""
    /\ color_arg \in {NoDate} \cup
                     {[present |-> TRUE, t |-> k - Days(a)] :
                          a \in ColorAges, k \in (1 - TicksPerDay)..(TicksPerDay - 1)}
    /\ color_arg.present \/ entry = "get_color_by_date"

NextRetry == search_pubmed \/ fetch_pubmed_details

NextSearch ==
    \/ search_pubmed
    \/ fetch_pubmed_details
    \/ search_preprints
    \/ search_researchsquare
    \/ normalize_records
    \/ filter_and_return

Next ==
    \/ search_pubmed
    \/ fetch_pubmed_details
    \/ search_preprints
    \/ search_researchsquare
    \/ normalize_records
    \/ filter_and_return
    \/ merge_query
    \/ sort_and_display

NextColor ==
    \/ call_get_color_by_date
    \/ call_get_researchsquare_color
    \/ call_get_pubmed_color
    \/ call_get_preprint_color

SpecRetry == InitRetry /\ [][NextRetry]_vars
SpecSearch == InitSearch /\ [][NextSearch]_vars
Spec == Init /\ [][Next]_vars
SpecColor == InitColor /\ [][NextColor]_vars


----------------------------------------------------------------------------
(* Properties of the retry loop, checked under SpecRetry. *)

RECURSIVE Pow2(_)
Pow2(n) == IF n <= 0 THEN 1 ELSE 2 * Pow2(n - 1)

Last(s) == s[Len(s)]
Retryable(o) == o = HttpError(500)
NonRetryable(o) == o # Ok /\ o # HttpError(500)
AllRetryable(log) == \A i \in 1..Len(log) : Retryable(log[i].outcome)

\* C1: a call with max_retries >= 1 whose requests failed with HTTP 500 fewer than
\* max_retries times goes on to another request, and a request that succeeds ends
\* the call with that request's response as the value returned; no call issues
\* more than max_retries requests.
C1_RetryReturnsSuccess ==
    /\ Len(requests) <= max_retries
    /\ max_retries >= 1 =>
         /\ (AllRetryable(requests) /\ Len(requests) < max_retries)
               => (pc = entry /\ attempt = Len(requests))
         /\ (requests # <<>> /\ Last(requests).outcome = Ok)
               => (pc = "returned" /\ result = Last(requests).response)
         /\ pc = "returned" => (requests # <<>> /\ Last(requests).outcome = Ok)

\* two HTTP 500 failures, then a success at the third request, with the default
\* max_retries
C1_Witness ==
    /\ max_retries = DefaultMaxRetries
    /\ Len(requests) = 3
    /\ Retryable(requests[1].outcome)
    /\ Retryable(requests[2].outcome)
    /\ requests[3].outcome = Ok
    /\ pc = "returned"
    /\ result # <<>>
    /\ result = requests[3].response

\* C2: counting attempts as the loop does (the first request is attempt 0, so
\* attempt k is the k-th retry), the delay slept before attempt k is
\* initial_delay * 2^(k-1); a delay is slept only after a request that failed with
\* HTTP 500 and before the attempt that retries it.
C2_BackoffDoubles ==
    /\ Len(sleeps) = attempt
    /\ \A k \in 1..Len(sleeps) :
          /\ sleeps[k] = initial_delay * Pow2(k - 1)
          /\ k <= Len(requests)
          /\ Retryable(requests[k].outcome)
    /\ Len(requests) <= Len(sleeps) + 1
    /\ (sleeps # <<>> /\ Len(requests) = Len(sleeps))
          => (pc = entry /\ in_range(attempt, max_retries))

\* three delays slept, the third four times the first
C2_Witness ==
    /\ initial_delay = 2
    /\ sleeps = <<2, 4, 8>>
    /\ Len(requests) = 4
    /\ pc = "returned"

\* C3: a request that fails with anything but HTTP 500 is the call's last request,
\* the call ends in the error and no delay is slept after it; when every one of the
\* max_retries requests fails with HTTP 500 the call ends in an error, returns
\* nothing, and has slept only between the requests.
C3_NonRetryableRaisesAtOnce ==
    /\ \A i \in 1..Len(requests) :
          NonRetryable(requests[i].outcome)
             => (i = Len(requests) /\ pc = "raised" /\ Len(sleeps) = i - 1)
    /\ (max_retries >= 1 /\ Len(requests) = max_retries /\ AllRetryable(requests))
          => (pc = "raised" /\ Len(sleeps) = max_retries - 1)
    /\ pc = "raised" => result = <<>>

\* an HTTP 404 at the second request, after one retry
C3_Witness ==
    /\ Len(requests) = 2
    /\ Retryable(requests[1].outcome)
    /\ requests[2].outcome = HttpError(404)
    /\ pc = "raised"
    /\ sleeps = <<initial_delay>>


----------------------------------------------------------------------------
(* Properties of the merge, checked under Spec. *)

Indices(s) == 1..Len(s)
TitlesProduced == {extract_title(produced[i].html) : i \in Indices(produced)}

\* the queries of the produced articles that carry the title, in the order produced
RECURSIVE QueriesOfTitle(_, _)
QueriesOfTitle(list, title) ==
    IF list = <<>> THEN <<>>
    ELSE IF extract_title(Head(list).html) = title
         THEN <<Head(list).query>> \o QueriesOfTitle(Tail(list), title)
         ELSE QueriesOfTitle(Tail(list), title)

\* C4: the map holds exactly one article for each distinct title read back from the
\* articles the queries produced; its list of matching queries is the queries that
\* produced the title, in the order they were processed, and is never empty; the
\* displayed result holds these articles and no other.
C4_OneArticlePerTitle ==
    /\ {seen_titles[i].title : i \in Indices(seen_titles)} = TitlesProduced
    /\ Len(seen_titles) = Cardinality(TitlesProduced)
    /\ \A i \in Indices(seen_titles) :
          /\ seen_titles[i].article.queries = QueriesOfTitle(produced, seen_titles[i].title)
          /\ seen_titles[i].article.queries # <<>>
          /\ extract_title(seen_titles[i].article.html) = seen_titles[i].title
    /\ (pc = "returned" /\ displayed) =>
          /\ Len(all_results) = Cardinality(TitlesProduced)
          /\ {all_results[i] : i \in Indices(all_results)}
                = {seen_titles[i].article : i \in Indices(seen_titles)}

\* two queries each produced an article of the same title (one with a leading
\* blank): one merged article, matched by both queries in order
C4_Witness ==
    /\ pc = "returned"
    /\ queries = <<"covid", "long covid">>
    /\ Len(produced) = 2
    /\ produced[1].html # produced[2].html
    /\ Len(all_results) = 1
    /\ all_results[1].queries = <<"covid", "long covid">>

PositionInMap(a) == KeyIndex(seen_titles, extract_title(a.html))

\* C5: the displayed list is non-increasing by date, and two articles of equal
\* date stand in the order in which their titles entered the map.
C5_SortedStable ==
    (pc = "returned" /\ displayed) =>
        /\ Len(all_results) = Len(seen_titles)
        /\ \A i \in Indices(all_results) : PositionInMap(all_results[i]) > 0
        /\ \A i, j \in Indices(all_results) :
              i < j =>
                /\ all_results[i].date >= all_results[j].date
                /\ all_results[i].date = all_results[j].date
                      => PositionInMap(all_results[i]) < PositionInMap(all_results[j])

\* three articles, the oldest one first into the map, the two newer ones of one date
C5_Witness ==
    /\ pc = "returned"
    /\ Len(all_results) = 3
    /\ all_results[1].date = all_results[2].date
    /\ all_results[2].date > all_results[3].date
    /\ PositionInMap(all_results[3]) = 1
    /\ PositionInMap(all_results[1]) = 2
    /\ PositionInMap(all_results[2]) = 3

\* C9: a failed adapter call is the last adapter call of the invocation: the
\* invocation ends in the error, nothing is fetched after it for this or a later
\* query, and no report is displayed.
C9_FailureAborts ==
    /\ \A i \in Indices(calls) :
          calls[i].status = "failed"
             => (i = Len(calls) /\ pc = "raised" /\ ~displayed /\ all_results = <<>>)
    /\ pc = "raised" => (calls # <<>> /\ Last(calls).status = "failed")
    /\ displayed => \A i \in Indices(calls) : calls[i].status = "ok"

\* the aggregator fails for the second query after the first query was merged
C9_Witness ==
    /\ pc = "raised"
    /\ Len(queries) = 2
    /\ qi = 2
    /\ seen_titles # <<>>
    /\ Last(calls) = [fn |-> "search_preprints", query |-> 2, status |-> "failed"]
    /\ ~displayed

----------------------------------------------------------------------------
(* Properties of search_articles, checked under SpecSearch. *)

\* the window of the claims: five years of 365 days back, 30 days a month ahead
InWindow(now, months, date) ==
    /\ now - Days(FiveYearsDays) <= date
    /\ date <= now + Days(30 * months)

LabelOf(a) == a.html[Len(a.html)]
CountOf(list, label) == Cardinality({i \in Indices(list) : LabelOf(list[i]) = label})

\* a citation record is malformed when the date it is dated by cannot be read:
\* it has no history, or no date in it, or its first date tagged "pubmed" is
\* unreadable, or it has no tagged date and one of its dates is unreadable
TaggedDates(p) ==
    {i \in Indices(p.history.dates) : p.history.dates[i].status = "pubmed"}
MalformedPaper(p) ==
    \/ ~p.history.present
    \/ p.history.dates = <<>>
    \/ \E i \in TaggedDates(p) :
          /\ \A j \in TaggedDates(p) : i <= j
          /\ ~p.history.dates[i].ok
    \/ /\ TaggedDates(p) = {}
       /\ \E i \in Indices(p.history.dates) : ~p.history.dates[i].ok
GoodPaper(p, now, months) ==
    /\ p.history.present
    /\ p.history.dates # <<>>
    /\ \A i \in Indices(p.history.dates) :
          /\ p.history.dates[i].isDict
          /\ p.history.dates[i].ok
          /\ InWindow(now, months, Midnight(p.history.dates[i].day))
MalformedPreprint(p) == ~p.date.ok
GoodPreprint(p, now, months) ==
    p.date.ok /\ InWindow(now, months, Midnight(p.date.day))
MalformedPosted(p) == ~p.posted_at.ok
GoodPosted(p, now, months) ==
    p.posted_at.ok /\ InWindow(now, months, DateTime(p.posted_at.day, p.posted_at.tod))

\* of the records 1..n exactly one is malformed, the others are good
OneMalformed(n, malformed, good) ==
    /\ Cardinality(malformed) = 1
    /\ malformed \cup good = 1..n

\* C6: normalisation never ends in an exception, and of a batch of N records of
\* one source of which exactly one is malformed and the others are well-formed and
\* in the window, N-1 articles are made, whatever the place of the malformed one
\* and whatever the other batches hold.
C6_MalformedDropped ==
    /\ pc = "raised" => (calls # <<>> /\ Last(calls).status = "failed")
    /\ pc = "filter" =>
          /\ OneMalformed(Len(pubmed_papers),
                          {i \in Indices(pubmed_papers) : MalformedPaper(pubmed_papers[i])},
                          {i \in Indices(pubmed_papers) :
                              GoodPaper(pubmed_papers[i], current_date, max_future_months)})
                => CountOf(all_articles, "Journal") = Len(pubmed_papers) - 1
          /\ OneMalformed(Len(preprint_results),
                          {i \in Indices(preprint_results) :
                              MalformedPreprint(preprint_results[i])},
                          {i \in Indices(preprint_results) :
                              GoodPreprint(preprint_results[i], current_date,
                                           max_future_months)})
                => CountOf(all_articles, "Server") = Len(preprint_results) - 1
          /\ OneMalformed(Len(researchsquare_results),
                          {i \in Indices(researchsquare_results) :
                              MalformedPosted(researchsquare_results[i])},
                          {i \in Indices(researchsquare_results) :
                              GoodPosted(researchsquare_results[i], current_date,
                                         max_future_months)})
                => CountOf(all_articles, "ResearchSquare")
                      = Len(researchsquare_results) - 1

\* a malformed citation record ahead of a good one, and a good record of a later
\* source
C6_Witness ==
    /\ pc = "filter"
    /\ Len(pubmed_papers) = 2
    /\ pubmed_papers[1].history.present
    /\ MalformedPaper(pubmed_papers[1])
    /\ GoodPaper(pubmed_papers[2], current_date, max_future_months)
    /\ Len(researchsquare_results) = 1
    /\ Len(all_articles) = 2
    /\ LabelOf(all_articles[1]) = "Journal"
    /\ LabelOf(all_articles[2]) = "ResearchSquare"

SingleDated(p) == p.history.present => Len(p.history.dates) = 1

\* C7: every article search_articles holds after normalisation, and returns, has
\* its date in the window [current_date - 5*365 days, current_date + 30 *
\* max_future_months days], both ends included; and a well-formed record is made
\* an article exactly when its date is in that window.
C7_DatesInWindow ==
    /\ pc \in {"filter", "returned"} =>
          \A i \in Indices(all_articles) :
             InWindow(current_date, max_future_months, all_articles[i].date)
    /\ pc = "returned" =>
          \A i \in Indices(result) :
             InWindow(current_date, max_future_months, result[i].date)
    /\ pc = "filter" =>
          /\ CountOf(all_articles, "Server")
                = Cardinality({i \in Indices(preprint_results) :
                      GoodPreprint(preprint_results[i], current_date, max_future_months)})
          /\ CountOf(all_articles, "ResearchSquare")
                = Cardinality({i \in Indices(researchsquare_results) :
                      GoodPosted(researchsquare_results[i], current_date,
                                 max_future_months)})
          /\ (\A i \in Indices(pubmed_papers) : SingleDated(pubmed_papers[i]))
                => CountOf(all_articles, "Journal")
                      = Cardinality({i \in Indices(pubmed_papers) :
                            GoodPaper(pubmed_papers[i], current_date, max_future_months)})

\* an article dated exactly five times 365 days before current_date is kept, and a
\* record one tick past the far end is dropped
C7_Witness ==
    /\ pc = "filter"
    /\ \E i \in Indices(all_articles) :
          all_articles[i].date = current_date - Days(FiveYearsDays)
    /\ \E i \in Indices(researchsquare_results) :
          /\ researchsquare_results[i].posted_at.ok
          /\ DateTime(researchsquare_results[i].posted_at.day,
                      researchsquare_results[i].posted_at.tod)
                = current_date + Days(30 * max_future_months) + 1
    /\ CountOf(all_articles, "ResearchSquare") = 0

OnDay(list, day) == SelectSeq(list, LAMBDA a : DateOf(a.date) = day)
FromDay(list, day) == SelectSeq(list, LAMBDA a : DateOf(a.date) >= day)

\* C8 as stated: with timeframe "today" the articles returned are exactly those
\* whose calendar day is today, in their order.
C8_TodayOnly ==
    (pc = "returned" /\ timeframe = "today") => result = OnDay(articles, DateOf(clock))

\* C8, amended: with timeframe "today" the articles returned are exactly those
\* whose calendar day is today or later, in their order; those dated before today
\* are removed.
C8_TodayOrLater ==
    (pc = "returned" /\ timeframe = "today") =>
        /\ result = FromDay(articles, DateOf(clock))
        /\ \A i \in Indices(result) : DateOf(result[i].date) >= DateOf(clock)

\* yesterday's article removed, today's and tomorrow's kept
C8_Witness ==
    /\ pc = "returned"
    /\ timeframe = "today"
    /\ Len(articles) = 3
    /\ \E i \in Indices(articles) : DateOf(articles[i].date) = DateOf(clock) - 1
    /\ Len(result) = 2
    /\ \E i \in Indices(result) : DateOf(result[i].date) = DateOf(clock)
    /\ \E i \in Indices(result) : DateOf(result[i].date) = DateOf(clock) + 1

----------------------------------------------------------------------------
(* Properties of the colour tables, checked under SpecColor. *)

\* the clock the function reads
NowOf(fn) == IF fn \in {"get_pubmed_color", "get_preprint_color"}
             THEN current_date ELSE clock

\* (now - date).days
Age == DaysBetween(NowOf(entry), color_arg.t)

\* the colours of the tiers of a table, newest first
TiersOf(fn) ==
    CASE fn = "get_color_by_date" -> <<GREEN, YELLOW, RED>>
      [] fn = "get_researchsquare_color" -> <<"#8FBC8F", "#DEB887", "#CD5C5C">>
      [] fn = "get_pubmed_color" -> <<"#2E8B57", "#DAA520", "#B22222">>
      [] fn = "get_preprint_color" -> <<"#98FB98", "#FAFAD2", "#FFA07A">>

\* the day thresholds of a table
ThresholdsOf(fn) == IF fn = "get_color_by_date" THEN <<3, 7>> ELSE <<7, 30>>

\* an age equal to a threshold maps to the tier the threshold bounds from above,
\* the age one day more to the next tier
InclusiveAt(k) ==
    /\ Age = ThresholdsOf(entry)[k] => color = TiersOf(entry)[k]
    /\ Age = ThresholdsOf(entry)[k] + 1 => color = TiersOf(entry)[k + 1]

\* C10 as stated: in every colour table the thresholds are inclusive, and a date
\* exactly 7 days old maps to the first ("recent") tier of the table.
C10_SevenDaysRecent ==
    (pc = "returned" /\ color_arg.present) =>
        /\ \A k \in 1..2 : InclusiveAt(k)
        /\ Age = 7 => color = TiersOf(entry)[1]

\* C10, amended: in every colour table an age in whole days equal to a threshold
\* maps to the tier the threshold bounds from above, and the age one day more to
\* the next tier; a date exactly 7 days old maps to the first ("recent") tier in
\* the three 7/30 tables and to the second tier in the 3/7 table of
\* get_color_by_date, and in no table to the last ("stale") tier.
C10_ThresholdsInclusive ==
    (pc = "returned" /\ color_arg.present) =>
        /\ \A k \in 1..2 : InclusiveAt(k)
        /\ Age = 7 => color # TiersOf(entry)[3]
        /\ (Age = 7 /\ entry # "get_color_by_date") => color = TiersOf(entry)[1]
        /\ (Age = 7 /\ entry = "get_color_by_date") => color = TiersOf(entry)[2]

\* a date 7 days and a part of a day old, coloured by the citation table
C10_Witness ==
    /\ pc = "returned"
    /\ entry = "get_pubmed_color"
    /\ current_date - color_arg.t = Days(7) + TicksPerDay - 1
    /\ color = "#2E8B57"


====
